---------------------------- MODULE Spec2Model ----------------------------
(***************************************************************************)
(* wxLanesBridge: the three Lua entry points init, getPointer and          *)
(* postEvent of src/src/wxLanesBridge.cpp, the process-wide static         *)
(* s_defaultEventID they share, and the pending-event queues of the        *)
(* wxWidgets objects that wxPostEvent appends to.                          *)
(*                                                                         *)
(* Lua values are records tagged with their Lua type.  Strings are byte    *)
(* sequences; a wxString is a sequence of code points.  A Lua integer is   *)
(* 64 bits wide and is kept as two 32-bit words, hi * 2^32 + lo with lo    *)
(* signed; wxEventType and int are 32 bits wide, and so is long on the     *)
(* Windows builds the module is written for (line 157: "32-bit IDs").      *)
(***************************************************************************)
EXTENDS Integers, Sequences, FiniteSets, TLC

VARIABLES
  s_defaultEventID,  \* the static wxEventType of line 56
  pending,           \* per wxWidgets object: the events queued for it
  last,              \* the most recent step: call, pre-state and outcome
  configured,        \* history: some init call has stored an identifier
  firstSet,          \* history: the first non-sentinel identifier stored
  pc,                \* per thread: where it is inside a call
  frame              \* per thread: the Lua stack of the call in progress

vars == <<s_defaultEventID, pending, last, configured, firstSet, pc, frame>>

-----------------------------------------------------------------------------
(* Integer widths *)

wxID_ANY == -1

\* the lua_Integer hi * 2^32 + lo, with lo in -2^31 .. 2^31 - 1
LInt(hi, lo) == [hi |-> hi, lo |-> lo]

\* the casts (int) and (wxEventType) of a lua_Integer keep its low word
ToInt(n) == n.lo

\* the cast (long) of a lua_Integer, long being 32 bits wide
ToLong(n) == n.lo

-----------------------------------------------------------------------------
(* Lua values *)

Nil == [t |-> "nil"]
Bool(b) == [t |-> "boolean", b |-> b]
\* the integer n, for an n of one word, and the integer hi * 2^32 + lo
Num(n) == [t |-> "number", sub |-> "int", n |-> LInt(0, n)]
BigNum(hi, lo) == [t |-> "number", sub |-> "int", n |-> LInt(hi, lo)]
\* the float n + 1/2, a number with no integer representation
Half(n) == [t |-> "number", sub |-> "flt", n |-> LInt(0, n)]
Str(s) == [t |-> "string", s |-> s]
Light(p) == [t |-> "lightuserdata", p |-> p]
\* a full userdata block whose first machine word holds the address p
UData(p) == [t |-> "userdata", word0 |-> p]
\* a plain table with the fields s, i, l and one other key, x
Table(s, i, l, x) == [t |-> "table", s |-> s, i |-> i, l |-> l, x |-> x]
\* the value of a stack slot beyond the top
None == [t |-> "none"]

NULL == 0

\* the value at stack index k of the argument list args
Arg(args, k) == IF k <= Len(args) THEN args[k] ELSE None

lua_gettop(args) == Len(args)

lua_isnil(v) == v.t = "nil"

lua_istable(v) == v.t = "table"

lua_islightuserdata(v) == v.t = "lightuserdata"

lua_isuserdata(v) == v.t \in {"userdata", "lightuserdata"}

\* the block address of a full userdata is never null; the model names the
\* block by the value itself
lua_touserdata_isnull(v) ==
  CASE v.t = "userdata" -> FALSE
    [] v.t = "lightuserdata" -> v.p = NULL
    [] OTHER -> TRUE

lua_getfield(tbl, k) ==
  CASE k = "s" -> tbl.s
    [] k = "i" -> tbl.i
    [] k = "l" -> tbl.l
    [] OTHER -> tbl.x

-----------------------------------------------------------------------------
(* String and number conversions of the Lua API *)

\* the character codes of '-', '.', '0' and '5'
Chr == [minus |-> 45, dot |-> 46, zero |-> 48, five |-> 53]

IsDigit(c) == c >= Chr.zero /\ c <= Chr.zero + 9

RECURSIVE DigitsVal(_, _)
DigitsVal(s, acc) ==
  IF s = <<>> THEN acc ELSE DigitsVal(Tail(s), acc * 10 + (Head(s) - Chr.zero))

AllDigits(s) == s # <<>> /\ \A k \in 1..Len(s) : IsDigit(s[k])

\* l_str2int for decimal numerals: an optional minus sign, then digits
IsIntNumeral(s) ==
  \/ AllDigits(s)
  \/ s # <<>> /\ Head(s) = Chr.minus /\ AllDigits(Tail(s))

StrToInt(s) ==
  IF Head(s) = Chr.minus THEN 0 - DigitsVal(Tail(s), 0) ELSE DigitsVal(s, 0)

RECURSIVE NatDigits(_)
NatDigits(n) ==
  IF n < 10 THEN <<Chr.zero + n>>
  ELSE Append(NatDigits(n \div 10), Chr.zero + (n % 10))

\* the decimal text of an integer of one word
IntToStr(n) == IF n < 0 THEN <<Chr.minus>> \o NatDigits(0 - n) ELSE NatDigits(n)

\* a number is always convertible to a string
lua_isstring(v) == v.t \in {"string", "number"}

\* lua_isnumber true of every string, as lua_isstring is of every number
Mut_lua_isnumber_anystring(v) == v.t \in {"number", "string"}

\* lua_isnumber taken for a test of the type tag
Mut_lua_isnumber(v) == v.t = "number"
\* a string that is a numeral is convertible to a number
lua_isnumber(v) ==
  \/ v.t = "number"
  \/ v.t = "string" /\ IsIntNumeral(v.s)

\* lua_tostring of a value lua_isstring accepts
lua_tostring(v) ==
  CASE v.t = "string" -> v.s
    [] v.t = "number" /\ v.sub = "int" -> IntToStr(v.n.lo)
    [] v.t = "number" /\ v.sub = "flt" ->
         IntToStr(v.n.lo) \o <<Chr.dot, Chr.five>>
    [] OTHER -> <<>>

\* lua_tointeger: 0 when the value has no integer representation
lua_tointeger(v) ==
  CASE v.t = "number" /\ v.sub = "int" -> v.n
    [] v.t = "string" /\ IsIntNumeral(v.s) -> LInt(0, StrToInt(v.s))
    [] OTHER -> LInt(0, 0)

\* luaL_checkinteger succeeds on exactly these values
IsInteger(v) ==
  \/ v.t = "number" /\ v.sub = "int"
  \/ v.t = "string" /\ IsIntNumeral(v.s)

-----------------------------------------------------------------------------
(* wxString::FromUTF8 of a char pointer *)

\* the C string a char pointer denotes: the bytes before the first NUL
CStr(s) ==
  LET nul == {k \in 1..Len(s) : s[k] = 0} IN
  IF nul = {} THEN s
  ELSE SubSeq(s, 1, (CHOOSE k \in nul : \A j \in nul : k <= j) - 1)

IsCont(c) == c >= 128 /\ c <= 191

\* the length of the UTF-8 sequence a lead byte starts, 0 for no lead byte
SeqLen(c) ==
  CASE c <= 127 -> 1
    [] c >= 194 /\ c <= 223 -> 2
    [] c >= 224 /\ c <= 239 -> 3
    [] c >= 240 /\ c <= 244 -> 4
    [] OTHER -> 0

\* a well-formed sequence at the head of s: continuation bytes, no overlong
\* form, no surrogate, nothing above U+10FFFF
HeadOk(s) ==
  LET n == SeqLen(Head(s)) IN
  /\ n > 0
  /\ Len(s) >= n
  /\ \A k \in 2..n : IsCont(s[k])
  /\ (Head(s) = 224 => s[2] >= 160)
  /\ (Head(s) = 237 => s[2] <= 159)
  /\ (Head(s) = 240 => s[2] >= 144)
  /\ (Head(s) = 244 => s[2] <= 143)

HeadPoint(s) ==
  LET n == SeqLen(Head(s)) IN
  CASE n = 1 -> s[1]
    [] n = 2 -> (s[1] - 192) * 64 + (s[2] - 128)
    [] n = 3 -> (s[1] - 224) * 4096 + (s[2] - 128) * 64 + (s[3] - 128)
    [] OTHER -> (s[1] - 240) * 262144 + (s[2] - 128) * 4096
                + (s[3] - 128) * 64 + (s[4] - 128)

\* valid[k]: the bytes from position k on are well-formed sequences
Utf8Valid(s) ==
  LET valid[k \in 1..(Len(s) + 1)] ==
        \/ k > Len(s)
        \/ HeadOk(SubSeq(s, k, Len(s))) /\ valid[k + SeqLen(s[k])]
  IN valid[1]

\* points[k]: the code points of the sequences from position k on
Utf8Points(s) ==
  LET points[k \in 1..(Len(s) + 1)] ==
        IF k > Len(s) THEN <<>>
        ELSE <<HeadPoint(SubSeq(s, k, Len(s)))>> \o points[k + SeqLen(s[k])]
  IN points[1]

\* the empty wxString when the bytes are not valid UTF-8
FromUTF8(s) == IF Utf8Valid(CStr(s)) THEN Utf8Points(CStr(s)) ELSE <<>>

-----------------------------------------------------------------------------
(* Outcomes of a call, and the events of the toolkit *)

ERR_BADARG == "bad argument #1 to 'init' (number expected)"
ERR_UNINIT_GET == "wxLanesBridge must be initialized before use."
ERR_ARGC == "wxLanesBridge: Wrong argument count."
ERR_UNINIT_POST == "wxLanesBridge: Error - Call init() before postEvent()."
ERR_ARG1 == "wxLanesBridge: Argument 1 must be lightuserdata (e.g. a wxWindow pointer)"
ERR_ARG2 == "wxLanesBridge: Optional argument 2 must be a table."

\* luaL_error: the call is aborted with a message, nothing is returned
Error(m) == [status |-> "error", msg |-> m, res |-> <<>>, posts |-> <<>>,
             setters |-> {}]

\* return n with the n values res on the stack; posts are the wxPostEvent
\* calls made, setters the event setters called
Return(res, posts, setters) ==
  [status |-> "return", msg |-> "", res |-> res, posts |-> posts,
   setters |-> setters]

\* the process died inside the call
Crash == [status |-> "crash", msg |-> "", res |-> <<>>, posts |-> <<>>,
          setters |-> {}]

\* wxThreadEvent with its two arguments taken in the other order
Mut_wxThreadEvent_swapped(eventType, id) ==
  [type |-> id, id |-> eventType, str |-> <<>>, int |-> 0, extraLong |-> 0]

\* wxThreadEvent(eventType, wxID_ANY): empty string, int 0, extra long 0
wxThreadEvent(eventType, id) ==
  [type |-> eventType, id |-> id, str |-> <<>>, int |-> 0, extraLong |-> 0]

SetString(e, s) == [e EXCEPT !.str = s]

SetInt(e, n) == [e EXCEPT !.int = n]

SetExtraLong(e, n) == [e EXCEPT !.extraLong = n]

\* wxPostEvent(dest, event): a copy of event joins the tail of dest's queue
wxPostEvent(q, dest, event) == [q EXCEPT ![dest] = Append(@, event)]

RECURSIVE ApplyPosts(_, _)
ApplyPosts(q, posts) ==
  IF posts = <<>> THEN q
  ELSE ApplyPosts(wxPostEvent(q, Head(posts).win, Head(posts).event),
                  Tail(posts))

-----------------------------------------------------------------------------
(* init, lines 87-107 *)

\* luaL_checkinteger(L, 1) raises an error unless argument 1 is an integer
init_accepts(args) == IsInteger(Arg(args, 1))

\* (wxEventType)luaL_checkinteger(L, 1)
init_value(args) == ToInt(lua_tointeger(Arg(args, 1)))

\* lines 95-106: the global wxLanesBridge of the calling VM, or when that
\* is nil the entry wxLanesBridge of package.loaded
init_module(env) == IF lua_isnil(env.global) THEN env.loaded ELSE env.global

init_outcome(args, env) ==
  IF init_accepts(args) THEN Return(<<init_module(env)>>, <<>>, {})
  ELSE Error(ERR_BADARG)

\* init reading its argument with lua_tointeger, which yields 0 for a value
\* that is no integer, instead of luaL_checkinteger
Mut_init_stores_unchecked(id, args) == init_value(args)

\* init reading its argument with luaL_optinteger(L, 1, wxID_ANY)
Mut_init_stores_opt(id, args) ==
  IF init_accepts(args) THEN init_value(args) ELSE wxID_ANY

\* the value of s_defaultEventID after init(args) called with id stored
init_stores(id, args) == IF init_accepts(args) THEN init_value(args) ELSE id

-----------------------------------------------------------------------------
(* getPointer, lines 126-143 *)

\* every address the model knows: the null address and the live objects
Objects == {43981, 4660}

Addresses == {NULL} \cup Objects

\* getPointer returning nothing for a block whose first word is null
Mut_Deref_nullcheck(v) ==
  IF v.t = "userdata"
  THEN {IF v.word0 = NULL THEN Return(<<>>, <<>>, {})
        ELSE Return(<<Light(v.word0)>>, <<>>, {})}
  ELSE {Return(<<Light(a)>>, <<>>, {}) : a \in Addresses} \cup {Crash}

\* *(void**)ud: the first word of a full userdata block; for a light
\* userdata the word at the address it holds, which the bridge knows
\* nothing about: any address, or a fault
Deref(v) ==
  IF v.t = "userdata" THEN {Return(<<Light(v.word0)>>, <<>>, {})}
  ELSE {Return(<<Light(a)>>, <<>>, {}) : a \in Addresses} \cup {Crash}

getPointer_outcomes(id, args) ==
  IF id = wxID_ANY THEN {Error(ERR_UNINIT_GET)}
  ELSE IF lua_isuserdata(Arg(args, 1))
          /\ ~lua_touserdata_isnull(Arg(args, 1))
       THEN Deref(Arg(args, 1))
       ELSE {Return(<<>>, <<>>, {})}

-----------------------------------------------------------------------------
(* postEvent, lines 171-232 *)

\* postEvent_check without the test of line 179
Mut_postEvent_check_ungated(id, args) ==
  IF lua_gettop(args) < 1 \/ lua_gettop(args) > 2 THEN ERR_ARGC ELSE ""

\* lines 173-181: the argument count, then the read of s_defaultEventID
\* the sentinel tested before the argument count
Mut_postEvent_check_initfirst(id, args) ==
  IF id = wxID_ANY THEN ERR_UNINIT_POST
  ELSE IF lua_gettop(args) < 1 \/ lua_gettop(args) > 2 THEN ERR_ARGC
  ELSE ""

postEvent_check(id, args) ==
  IF lua_gettop(args) < 1 \/ lua_gettop(args) > 2 THEN ERR_ARGC
  ELSE IF id = wxID_ANY THEN ERR_UNINIT_POST
  ELSE ""

\* lines 184-191: the types of the two arguments
\* the type checks with a nil second argument taken as an absent one
Mut_postEvent_types_optnil(args) ==
  IF ~lua_islightuserdata(Arg(args, 1)) THEN ERR_ARG1
  ELSE IF /\ lua_gettop(args) = 2
          /\ ~lua_istable(Arg(args, 2))
          /\ ~lua_isnil(Arg(args, 2))
       THEN ERR_ARG2
  ELSE ""

postEvent_types(args) ==
  IF ~lua_islightuserdata(Arg(args, 1)) THEN ERR_ARG1
  ELSE IF lua_gettop(args) = 2 /\ ~lua_istable(Arg(args, 2)) THEN ERR_ARG2
  ELSE ""

\* lines 208-211
FieldS(e, tbl) ==
  IF lua_isstring(lua_getfield(tbl, "s"))
  THEN SetString(e, FromUTF8(lua_tostring(lua_getfield(tbl, "s"))))
  ELSE e

\* lines 215-218
FieldI(e, tbl) ==
  IF lua_isnumber(lua_getfield(tbl, "i"))
  THEN SetInt(e, ToInt(lua_tointeger(lua_getfield(tbl, "i"))))
  ELSE e

\* lines 222-225
FieldL(e, tbl) ==
  IF lua_isnumber(lua_getfield(tbl, "l"))
  THEN SetExtraLong(e, ToLong(lua_tointeger(lua_getfield(tbl, "l"))))
  ELSE e

\* lines 198-227: the event as it is handed to wxPostEvent
BuildEvent(id, args) ==
  IF lua_istable(Arg(args, 2))
  THEN FieldL(FieldI(FieldS(wxThreadEvent(id, wxID_ANY), Arg(args, 2)),
                     Arg(args, 2)), Arg(args, 2))
  ELSE wxThreadEvent(id, wxID_ANY)

\* the setters lines 206-227 call on the event
Setters(args) ==
  IF lua_istable(Arg(args, 2))
  THEN {f \in {"s", "i", "l"} :
          IF f = "s" THEN lua_isstring(lua_getfield(Arg(args, 2), f))
          ELSE lua_isnumber(lua_getfield(Arg(args, 2), f))}
  ELSE {}

\* postEvent_send posting the event before the table is read
Mut_postEvent_send_bare(id, args) ==
  IF Arg(args, 1).p = NULL THEN Return(<<>>, <<>>, {})
  ELSE Return(<<>>,
              <<[win |-> Arg(args, 1).p,
                 event |-> wxThreadEvent(id, wxID_ANY)]>>,
              Setters(args))

\* postEvent_send without the test of line 195
Mut_postEvent_send_unchecked(id, args) ==
  Return(<<>>,
         <<[win |-> Arg(args, 1).p, event |-> BuildEvent(id, args)]>>,
         Setters(args))

\* lines 194-232: nothing for a null target, else one event posted to it
postEvent_send(id, args) ==
  IF Arg(args, 1).p = NULL THEN Return(<<>>, <<>>, {})
  ELSE Return(<<>>,
              <<[win |-> Arg(args, 1).p, event |-> BuildEvent(id, args)]>>,
              Setters(args))

\* the event posted before the second argument's type is checked
Mut_postEvent_finish_postfirst(id, args) ==
  IF ~lua_islightuserdata(Arg(args, 1)) THEN Error(ERR_ARG1)
  ELSE IF postEvent_types(args) # ""
  THEN [Error(postEvent_types(args)) EXCEPT
          !.posts = postEvent_send(id, args).posts]
  ELSE postEvent_send(id, args)

\* lines 184-232, with id the value line 198 reads
postEvent_finish(id, args) ==
  IF postEvent_types(args) # "" THEN Error(postEvent_types(args))
  ELSE postEvent_send(id, args)

\* the whole call: idCheck is the value line 179 reads, idBuild the value
\* line 198 reads
postEvent_outcome(idCheck, idBuild, args) ==
  IF postEvent_check(idCheck, args) # ""
  THEN Error(postEvent_check(idCheck, args))
  ELSE postEvent_finish(idBuild, args)

-----------------------------------------------------------------------------
(* State *)

Threads == {"gui", "w1", "w2"}

Workers == Threads \ {"gui"}

MaxPending == 2

EmptyQueues == [o \in Objects |-> <<>>]

RECURSIVE SumLen(_, _)
SumLen(q, S) ==
  IF S = {} THEN 0
  ELSE LET o == CHOOSE x \in S : TRUE IN Len(q[o]) + SumLen(q, S \ {o})

TotalPending(q) == SumLen(q, Objects)

\* the module table luaopen_wxLanesBridge builds, lines 241-246
BridgeModule == [t |-> "table", name |-> "wxLanesBridge"]

NoEnv == [global |-> Nil, loaded |-> Nil]

\* a call in progress: its arguments, the identifier stored when it began,
\* and whether it began before the GUI thread's init returned
NoFrame == [args |-> <<>>, id0 |-> wxID_ANY, early |-> FALSE]

\* one completed call: its arguments, the state it started from and its
\* outcome; early tells that it began before the GUI thread's init returned
Call(op, args, env, id0, q0, out, early) ==
  [op |-> op, args |-> args, env |-> env, id0 |-> id0, pending0 |-> q0,
   out |-> out, early |-> early]

NoCall ==
  Call("none", <<>>, NoEnv, wxID_ANY, EmptyQueues, Return(<<>>, <<>>, {}),
       FALSE)

Dispatched ==
  Call("dispatch", <<>>, NoEnv, wxID_ANY, EmptyQueues, Return(<<>>, <<>>, {}),
       FALSE)

Init ==
  /\ s_defaultEventID = wxID_ANY
  /\ pending = EmptyQueues
  /\ last = NoCall
  /\ configured = FALSE
  /\ firstSet = wxID_ANY
  /\ pc = [t \in Threads |-> "idle"]
  /\ frame = [t \in Threads |-> NoFrame]

\* no call runs in a process that has died
Alive == last.out.status # "crash"

-----------------------------------------------------------------------------
(* The calls as single steps *)

\* the write of line 91 and what the history variables record of it
Store(args) ==
  /\ s_defaultEventID' = init_stores(s_defaultEventID, args)
  /\ configured' = (configured \/ init_accepts(args))
  /\ firstSet' = IF firstSet = wxID_ANY
                 THEN init_stores(s_defaultEventID, args) ELSE firstSet

init(args, env) ==
  /\ Alive
  /\ Store(args)
  /\ last' = Call("init", args, env, s_defaultEventID, pending,
                  init_outcome(args, env), FALSE)
  /\ UNCHANGED <<pending, pc, frame>>

\* getPointer putting the sentinel back when it finds no wrapper object
Mut_getPointer_resets(args) ==
  /\ Alive
  /\ \E out \in getPointer_outcomes(s_defaultEventID, args) :
       last' = Call("getPointer", args, NoEnv, s_defaultEventID, pending, out,
                    FALSE)
  /\ s_defaultEventID' =
       IF lua_isuserdata(Arg(args, 1)) THEN s_defaultEventID ELSE wxID_ANY
  /\ UNCHANGED <<pending, configured, firstSet, pc, frame>>

getPointer(args) ==
  /\ Alive
  /\ \E out \in getPointer_outcomes(s_defaultEventID, args) :
       last' = Call("getPointer", args, NoEnv, s_defaultEventID, pending, out,
                    FALSE)
  /\ UNCHANGED <<s_defaultEventID, pending, configured, firstSet, pc, frame>>

postEvent(args) ==
  LET out == postEvent_outcome(s_defaultEventID, s_defaultEventID, args) IN
  /\ Alive
  /\ TotalPending(pending) + Len(out.posts) <= MaxPending
  /\ pending' = ApplyPosts(pending, out.posts)
  /\ last' = Call("postEvent", args, NoEnv, s_defaultEventID, pending, out,
                  FALSE)
  /\ UNCHANGED <<s_defaultEventID, configured, firstSet, pc, frame>>

\* the GUI thread's event loop takes the oldest event queued for object o
Dispatch(o) ==
  /\ Alive
  /\ pending[o] # <<>>
  /\ pending' = [pending EXCEPT ![o] = Tail(@)]
  /\ last' = Dispatched
  /\ UNCHANGED <<s_defaultEventID, configured, firstSet, pc, frame>>

-----------------------------------------------------------------------------
(* Inputs *)

S_done == <<100, 111, 110, 101>>

S_hello == <<104, 101, 108, 108, 111>>

\* {s="done", i=1, l=1000} and {s="hello", l=42}
T_done == Table(Str(S_done), Num(1), Num(1000), Nil)

T_hello == Table(Str(S_hello), Nil, Num(42), Nil)

\* the calling VM after require("wxLanesBridge"): no global of that name
Env0 == [global |-> Nil, loaded |-> BridgeModule]

\* other VMs: the module also kept in a global; a global of that name that
\* is something else; the module loaded under another name
Envs ==
  { Env0,
    [global |-> BridgeModule, loaded |-> BridgeModule],
    [global |-> Num(5), loaded |-> BridgeModule],
    [global |-> Nil, loaded |-> Nil] }

\* 7, 8, the sentinel, 2^32 + 7, 2^32 - 1, "8", "x", 7.5, nil, nothing,
\* and two arguments
InitArgs ==
  { <<Num(7)>>, <<Num(8)>>, <<Num(wxID_ANY)>>, <<BigNum(1, 7)>>,
    <<BigNum(1, wxID_ANY)>>, <<Str(<<56>>)>>, <<Str(<<120>>)>>, <<Half(7)>>,
    <<Nil>>, <<>>, <<Num(8), Num(7)>> }

InitCalls ==
  { <<args, Env0>> : args \in InitArgs }
  \cup { <<<<Num(7)>>, env>> : env \in Envs }

GetArgs ==
  { <<>>, <<Nil>>, <<Num(43981)>>, <<Str(S_done)>>, <<T_done>>,
    <<Bool(TRUE)>>, <<UData(43981), Num(1)>> }
  \cup { <<Light(a)>> : a \in Addresses }
  \cup { <<UData(a)>> : a \in Addresses }

PostArgs ==
  { <<>>, <<Light(43981), T_done, Nil>>, <<UData(43981), Num(1), Nil>>,
    <<Nil>>, <<Num(43981)>>, <<Str(S_done)>>, <<UData(43981)>>,
    <<UData(43981), T_done>>, <<UData(43981), Num(1)>>,
    <<Light(43981), Num(1)>>, <<Light(43981), Nil>>,
    <<Light(NULL), Num(1)>>, <<Light(43981), Light(4660)>> }
  \cup { <<Light(a)>> : a \in Addresses }
  \cup { <<Light(a), T_done>> : a \in Addresses }

Next ==
  \/ \E c \in InitCalls : init(c[1], c[2])
  \/ \E args \in GetArgs : getPointer(args)
  \/ \E args \in PostArgs : postEvent(args)
  \/ \E o \in Objects : Dispatch(o)

Spec == Init /\ [][Next]_vars

-----------------------------------------------------------------------------
(* The documented use: the GUI thread calls init once, worker threads call *)
(* getPointer and postEvent.  No lock guards s_defaultEventID, so the      *)
(* steps of the threads interleave at each access to it: a read that races *)
(* with the write of line 91 sees the old or the new value.                *)

\* init on the GUI thread, up to and including the write of line 91
gui_init_store(args) ==
  /\ Alive
  /\ pc["gui"] = "idle"
  /\ init_accepts(args)
  /\ Store(args)
  /\ pc' = [pc EXCEPT !["gui"] = "stored"]
  /\ frame' = [frame EXCEPT
                 !["gui"] = [args |-> args, id0 |-> s_defaultEventID,
                             early |-> FALSE]]
  /\ UNCHANGED <<pending, last>>

\* lines 95-106: init returns to the GUI thread
gui_init_return ==
  /\ Alive
  /\ pc["gui"] = "stored"
  /\ last' = Call("init", frame["gui"].args, Env0, frame["gui"].id0, pending,
                  init_outcome(frame["gui"].args, Env0), FALSE)
  /\ pc' = [pc EXCEPT !["gui"] = "done"]
  /\ frame' = [frame EXCEPT !["gui"] = NoFrame]
  /\ UNCHANGED <<s_defaultEventID, pending, configured, firstSet>>

\* getPointer on worker t: one read of s_defaultEventID, line 127
worker_getPointer(t, args) ==
  /\ Alive
  /\ pc[t] = "idle"
  /\ \E out \in getPointer_outcomes(s_defaultEventID, args) :
       last' = Call("getPointer", args, NoEnv, s_defaultEventID, pending, out,
                    pc["gui"] # "done")
  /\ UNCHANGED <<s_defaultEventID, pending, configured, firstSet, pc, frame>>

\* the workers inside a postEvent call that passed lines 173-181
Posting == {t \in Workers : pc[t] = "posting"}

\* postEvent on worker t, lines 173-181: the first read of s_defaultEventID;
\* a call is begun only while the queues have room for its event
worker_postEvent_enter(t, args) ==
  /\ Alive
  /\ pc[t] = "idle"
  /\ IF postEvent_check(s_defaultEventID, args) # ""
     THEN /\ last' = Call("postEvent", args, NoEnv, s_defaultEventID,
                          pending,
                          Error(postEvent_check(s_defaultEventID, args)),
                          pc["gui"] # "done")
          /\ UNCHANGED <<pc, frame>>
     ELSE /\ TotalPending(pending) + Cardinality(Posting) < MaxPending
          /\ pc' = [pc EXCEPT ![t] = "posting"]
          /\ frame' = [frame EXCEPT
                         ![t] = [args |-> args, id0 |-> s_defaultEventID,
                                 early |-> pc["gui"] # "done"]]
          /\ UNCHANGED last
  /\ UNCHANGED <<s_defaultEventID, pending, configured, firstSet>>

\* the rest of postEvent returning only once the queues are empty
Mut_worker_postEvent_finish_sync(t) ==
  /\ Alive
  /\ pc[t] = "posting"
  /\ pending = EmptyQueues
  /\ \E out \in {postEvent_finish(s_defaultEventID, frame[t].args)} :
     /\ pending' = ApplyPosts(pending, out.posts)
     /\ last' = Call("postEvent", frame[t].args, NoEnv, frame[t].id0, pending,
                     out, frame[t].early)
     /\ pc' = [pc EXCEPT ![t] = "idle"]
     /\ frame' = [frame EXCEPT ![t] = NoFrame]
     /\ UNCHANGED <<s_defaultEventID, configured, firstSet>>

\* postEvent on worker t, lines 184-232: the second read of
\* s_defaultEventID, line 198, and the wxPostEvent
worker_postEvent_finish(t) ==
  /\ Alive
  /\ pc[t] = "posting"
  /\ \E out \in {postEvent_finish(s_defaultEventID, frame[t].args)} :
     /\ pending' = ApplyPosts(pending, out.posts)
     /\ last' = Call("postEvent", frame[t].args, NoEnv, frame[t].id0, pending,
                     out, frame[t].early)
     /\ pc' = [pc EXCEPT ![t] = "idle"]
     /\ frame' = [frame EXCEPT ![t] = NoFrame]
     /\ UNCHANGED <<s_defaultEventID, configured, firstSet>>

\* the event loop runs on the GUI thread once init has returned
gui_Dispatch(o) ==
  /\ pc["gui"] = "done"
  /\ Dispatch(o)

ConcInitArgs == { <<Num(7)>>, <<Num(8)>>, <<Num(wxID_ANY)>> }

ConcGetArgs == { <<UData(43981)>>, <<Nil>> }

ConcPostArgs ==
  { <<>>, <<Light(NULL)>>, <<Light(43981)>>, <<Light(4660), T_done>>,
    <<Num(1)>> }

ConcNext ==
  \/ \E args \in ConcInitArgs : gui_init_store(args)
  \/ gui_init_return
  \/ \E t \in Workers, args \in ConcGetArgs : worker_getPointer(t, args)
  \/ \E t \in Workers, args \in ConcPostArgs : worker_postEvent_enter(t, args)
  \/ \E t \in Workers : worker_postEvent_finish(t)
  \/ \E o \in Objects : gui_Dispatch(o)

ConcSpec == Init /\ [][ConcNext]_vars

\* a worker thread that is inside postEvent keeps running: lines 184-232
\* hold no loop and no wait; nothing is assumed of the GUI thread, which
\* may never return from init and never dispatch
ConcFairSpec ==
  /\ Init
  /\ [][ConcNext]_vars
  /\ \A t \in Workers : WF_vars(worker_postEvent_finish(t))

-----------------------------------------------------------------------------
(* postEvent over the tables a script can pass: after init(7), calls with  *)
(* one target and every kind of value under the keys s, i, l and another   *)
(* key.                                                                    *)

\* {}, {x="done"}, {s="done", i=1, l=1000, x=9}, {i=1}
T_empty == Table(Nil, Nil, Nil, Nil)

T_other == Table(Nil, Nil, Nil, Str(S_done))

T_done_other == Table(Str(S_done), Num(1), Num(1000), Num(9))

T_i == Table(Nil, Num(1), Nil, Nil)

\* {s=42}, {s=7.5, i=3.5, l=3.5}, {s=true, i=true, l=true}
T_snum == Table(Num(42), Nil, Nil, Nil)

T_halves == Table(Half(7), Half(3), Half(3), Nil)

T_bools == Table(Bool(TRUE), Bool(TRUE), Bool(FALSE), Nil)

\* {i="10", l="-3"}, {i="x", l="done"}, {i=2^32+7, l=2^32+7}
T_numerals == Table(Nil, Str(<<49, 48>>), Str(<<45, 51>>), Nil)

T_words == Table(Nil, Str(<<120>>), Str(S_done), Nil)

T_big == Table(Nil, BigNum(1, 7), BigNum(1, 7), Nil)

\* {s="h\0i"}, {s="\xFF"}, {s="\xC3\xA9"}, {s=<a plain address>}
T_nul == Table(Str(<<104, 0, 105>>), Nil, Nil, Nil)

T_badutf8 == Table(Str(<<255>>), Nil, Nil, Nil)

T_eacute == Table(Str(<<195, 169>>), Nil, Nil, Nil)

T_slight == Table(Light(4660), Nil, Nil, Nil)

\* {s=true, i=1, l=1000}, {s="done", i="x", l=1000}, {s="done", i=1, l={}}
T_sbool == Table(Bool(TRUE), Num(1), Num(1000), Nil)

T_iword == Table(Str(S_done), Str(<<120>>), Num(1000), Nil)

T_ltable == Table(Str(S_done), Num(1), T_empty, Nil)

Payloads ==
  { T_done, T_hello, T_empty, T_other, T_done_other, T_i, T_snum, T_halves,
    T_bools, T_numerals, T_words, T_big, T_nul, T_badutf8, T_eacute,
    T_slight, T_sbool, T_iword, T_ltable }

PayloadPostArgs ==
  { <<Light(43981)>>, <<Light(NULL), T_hello>> }
  \cup { <<Light(43981), tbl>> : tbl \in Payloads }

PayloadNext ==
  \/ init(<<Num(7)>>, Env0)
  \/ \E args \in PayloadPostArgs : postEvent(args)
  \/ \E o \in Objects : Dispatch(o)

PayloadSpec == Init /\ [][PayloadNext]_vars

-----------------------------------------------------------------------------
(* Properties *)

IsUninitError(out) ==
  out.status = "error" /\ out.msg \in {ERR_UNINIT_GET, ERR_UNINIT_POST}

\* a toolkit wrapper object, and nothing else
ValidGetArgs(args) == Len(args) >= 1 /\ args[1].t = "userdata"

\* a plain address of a live object or null, then at most a table
ValidPostArgs(args) ==
  /\ Len(args) \in {1, 2}
  /\ args[1].t = "lightuserdata"
  /\ Len(args) = 2 => args[2].t = "table"

ValidArgs(c) ==
  IF c.op = "getPointer" THEN ValidGetArgs(c.args) ELSE ValidPostArgs(c.args)

UninitErrorOf(op) ==
  IF op = "getPointer" THEN ERR_UNINIT_GET ELSE ERR_UNINIT_POST

Succeeded(c) == c.out.status = "return"

\* C1 as stated: a getPointer or postEvent call made before any configure
\* call fails with the uninitialized-use error whatever its arguments, and
\* after a configure call both succeed on valid arguments.
C1_Original ==
  last.op \in {"getPointer", "postEvent"} =>
    /\ ~configured => last.out = Error(UninitErrorOf(last.op))
    /\ configured /\ ValidArgs(last) => Succeeded(last)

\* C1 amended: before any configure call has stored an identifier, every
\* getPointer call and every postEvent call with one or two arguments
\* fails with the uninitialized-use error, and a postEvent call with no or
\* more than two arguments fails with the argument-count error; the same
\* holds whenever the stored identifier is the sentinel, and while it is
\* not the sentinel both succeed on valid arguments.
C1_Gating ==
  last.op \in {"getPointer", "postEvent"} =>
    /\ ~configured /\ last.op = "getPointer" =>
         last.out = Error(ERR_UNINIT_GET)
    /\ ~configured /\ last.op = "postEvent" =>
         last.out = IF Len(last.args) \in {1, 2} THEN Error(ERR_UNINIT_POST)
                    ELSE Error(ERR_ARGC)
    /\ ~configured => last.id0 = wxID_ANY
    /\ last.id0 = wxID_ANY /\ last.op = "getPointer" =>
         last.out = Error(ERR_UNINIT_GET)
    /\ last.id0 = wxID_ANY /\ last.op = "postEvent"
         /\ Len(last.args) \in {1, 2} => last.out = Error(ERR_UNINIT_POST)
    /\ last.id0 # wxID_ANY /\ ValidArgs(last) => Succeeded(last)

C1_Witness ==
  /\ ~configured
  /\ last.op = "postEvent"
  /\ last.args = <<Light(43981), T_done>>
  /\ last.out = Error(ERR_UNINIT_POST)

\* every event queued anywhere
QueuedEvents == UNION { {pending[o][k] : k \in 1..Len(pending[o])} : o \in Objects }

Target(c) == c.out.posts[1].win

Posted(c) == c.out.posts[1].event

\* C3: a postEvent call that passes its checks with a non-null target
\* appends exactly one event to that object's queue and changes no other
\* queue; the event has the kind stored when the call was made and the
\* fields of the table: after init(7), postEvent(0xABCD, {s="done", i=1,
\* l=1000}) queues kind 7, "done", 1, 1000 for 0xABCD.
C3_OneEvent ==
  last.op = "postEvent" /\ Succeeded(last) /\ last.args[1].p # NULL =>
    /\ Len(last.out.posts) = 1
    /\ Target(last) = last.args[1].p
    /\ pending = [last.pending0 EXCEPT
                    ![last.args[1].p] = Append(@, Posted(last))]
    /\ Posted(last).type = last.id0
    /\ Posted(last).id = wxID_ANY
    /\ Len(last.args) = 1 =>
         Posted(last) = [type |-> last.id0, id |-> wxID_ANY, str |-> <<>>,
                         int |-> 0, extraLong |-> 0]
    /\ Len(last.args) = 2 /\ last.args[2] = T_done =>
         Posted(last) = [type |-> last.id0, id |-> wxID_ANY,
                         str |-> <<100, 111, 110, 101>>, int |-> 1,
                         extraLong |-> 1000]

\* the scenario's call, made with an event already queued for the object
C3_Witness ==
  /\ last.op = "postEvent"
  /\ last.id0 = 7
  /\ last.args = <<Light(43981), T_done>>
  /\ Len(pending[43981]) = 2
  /\ pending[43981][2].type = 7
  /\ pending[43981][2].int = 1

\* C4 as stated: once the stored identifier has been set to a value other
\* than the sentinel, it equals the value first set in every later state.
C4_Original == firstSet # wxID_ANY => s_defaultEventID = firstSet

\* C4 amended: once set to a value other than the sentinel, the stored
\* identifier changes only in a configure call that succeeds, which
\* leaves it equal to the low 32 bits of its argument; getPointer,
\* postEvent and a configure call that raises an error leave it as it was.
C4_OnlyInitWrites ==
  [][s_defaultEventID # wxID_ANY /\ s_defaultEventID' # s_defaultEventID =>
       /\ last'.op = "init"
       /\ Succeeded(last')
       /\ last'.id0 = s_defaultEventID
       /\ s_defaultEventID' = lua_tointeger(last'.args[1]).lo]_vars

\* the identifier first set was 7 and a later configure call stored 8
C4_Witness ==
  /\ firstSet = 7
  /\ s_defaultEventID = 8
  /\ last.op = "init"
  /\ last.id0 = 7

\* C5 as stated: once the stored identifier is not the sentinel, no step
\* makes it the sentinel again.
C5_Original ==
  [][s_defaultEventID # wxID_ANY => s_defaultEventID' # wxID_ANY]_vars

\* C5 amended: the module starts Uninitialized; a configure call that
\* succeeds with an integer whose low 32 bits are not the sentinel makes
\* it Initialized; once Initialized, only a configure call that succeeds
\* with an integer whose low 32 bits are the sentinel (-1, 2^32 - 1)
\* returns it to Uninitialized.
C5_OneWayButSentinel ==
  /\ s_defaultEventID = wxID_ANY
  /\ [][(s_defaultEventID # wxID_ANY /\ s_defaultEventID' = wxID_ANY =>
            /\ last'.op = "init"
            /\ Succeeded(last')
            /\ last'.args[1].t \in {"number", "string"}
            /\ lua_tointeger(last'.args[1]).lo = wxID_ANY)
        /\ (s_defaultEventID = wxID_ANY /\ s_defaultEventID' # wxID_ANY =>
            last'.op = "init" /\ Succeeded(last'))
        /\ (last'.op = "init" /\ Succeeded(last')
              /\ lua_tointeger(last'.args[1]).lo # wxID_ANY =>
            s_defaultEventID' # wxID_ANY)]_vars

\* configured with 7, then with 2^32 - 1: Uninitialized again
C5_Witness ==
  /\ firstSet = 7
  /\ s_defaultEventID = wxID_ANY
  /\ last.op = "init"
  /\ last.args = <<BigNum(1, wxID_ANY)>>
  /\ last.id0 # wxID_ANY

\* C6 as stated: a configure call given an identifier stores it whatever
\* was stored before, and returns the module handle.
C6_Original ==
  last.op = "init" /\ Len(last.args) >= 1
    /\ last.args[1].t = "number" /\ last.args[1].sub = "int"
    /\ last.args[1].n.hi = 0 =>
      /\ s_defaultEventID = last.args[1].n.lo
      /\ last.out = Return(<<BridgeModule>>, <<>>, {})

\* C7 as stated: Initialized, getPointer returns the first word of a
\* wrapper object as a plain address, and nothing for any other argument.
C7_Original ==
  last.op = "getPointer" /\ last.id0 # wxID_ANY =>
    last.out = IF ValidGetArgs(last.args)
               THEN Return(<<Light(last.args[1].word0)>>, <<>>, {})
               ELSE Return(<<>>, <<>>, {})

\* C8 as stated: Initialized, getPointer of a wrapper object whose first
\* word is the null address returns nothing and raises no error.
C8_Original ==
  last.op = "getPointer" /\ last.id0 # wxID_ANY
    /\ last.args = <<UData(NULL)>> =>
      last.out = Return(<<>>, <<>>, {})

\* C8 amended: Initialized, getPointer of a wrapper object whose first
\* word is the null address returns one value, the null plain address,
\* and raises no error; it changes neither the identifier nor a queue.
C8_NullAddress ==
  last.op = "getPointer" /\ last.id0 # wxID_ANY
    /\ last.args = <<UData(NULL)>> =>
      /\ last.out = Return(<<Light(NULL)>>, <<>>, {})
      /\ s_defaultEventID = last.id0
      /\ pending = last.pending0

C8_Witness ==
  /\ last.op = "getPointer"
  /\ last.id0 = 7
  /\ last.args = <<UData(NULL)>>
  /\ Succeeded(last)

\* C9: Initialized, postEvent with the null plain address as argument 1,
\* with or without a table, returns nothing, raises no error and leaves
\* every queue as it was.
C9_NullTarget ==
  last.op = "postEvent" /\ last.id0 # wxID_ANY /\ ValidPostArgs(last.args)
    /\ last.args[1].p = NULL =>
      /\ last.out = Return(<<>>, <<>>, {})
      /\ pending = last.pending0

\* the call with a table, made while an event is queued
C9_Witness ==
  /\ last.op = "postEvent"
  /\ last.id0 = 8
  /\ last.args = <<Light(NULL), T_done>>
  /\ Succeeded(last)
  /\ TotalPending(pending) = 1

\* the event a wxThreadEvent is before any setter is called on it
DefaultEvent(type) ==
  [type |-> type, id |-> wxID_ANY, str |-> <<>>, int |-> 0, extraLong |-> 0]

IsPosted(c) ==
  c.op = "postEvent" /\ Succeeded(c) /\ Len(c.out.posts) = 1

\* C10 as stated: in a postEvent that queues an event, each of the string,
\* integer and long fields is set exactly when its key s, i, l holds a
\* string, an integer, an integer; a field whose key is absent keeps its
\* default; without a table all three keep their defaults.
C10_Original ==
  IsPosted(last) =>
    IF Len(last.args) = 2
    THEN LET tbl == last.args[2] IN
         /\ "s" \in last.out.setters <=> tbl.s.t = "string"
         /\ "i" \in last.out.setters <=>
              tbl.i.t = "number" /\ tbl.i.sub = "int"
         /\ "l" \in last.out.setters <=>
              tbl.l.t = "number" /\ tbl.l.sub = "int"
    ELSE last.out.setters = {} /\ Posted(last) = DefaultEvent(last.id0)

\* the Lua types the amended claim lets set a field
SetsString(v) == v.t \in {"string", "number"}

SetsNumber(v) ==
  \/ v.t = "number"
  \/ v.t = "string" /\ v.s \in {<<49, 48>>, <<45, 51>>}

\* C10 amended: in a postEvent that queues an event, the string field is
\* set exactly when s holds a string or a number, to the UTF-8 decoding
\* of its text (a number's decimal text) up to the first NUL byte, empty
\* when that is not valid UTF-8; the integer and long fields are set
\* exactly when i, l hold a number or a string that is a numeral, to the
\* low 32 bits of its integer value, 0 for a number that is no integer.
\* A field whose key is absent or holds any other value keeps its default,
\* the key x changes nothing, and without a table all three fields keep
\* their defaults.
C10_FieldSelectivity ==
  IsPosted(last) =>
    LET e == Posted(last) IN
    IF Len(last.args) = 2
    THEN LET tbl == last.args[2] IN
         /\ e.type = last.id0 /\ e.id = wxID_ANY
         /\ "s" \in last.out.setters <=> SetsString(tbl.s)
         /\ "i" \in last.out.setters <=> SetsNumber(tbl.i)
         /\ "l" \in last.out.setters <=> SetsNumber(tbl.l)
         /\ "s" \notin last.out.setters => e.str = <<>>
         /\ "i" \notin last.out.setters => e.int = 0
         /\ "l" \notin last.out.setters => e.extraLong = 0
         /\ tbl.s = Str(S_done) => e.str = <<100, 111, 110, 101>>
         /\ tbl.s = Str(S_hello) => e.str = <<104, 101, 108, 108, 111>>
         /\ tbl.s = Num(42) => e.str = <<52, 50>>
         /\ tbl.s = Half(7) => e.str = <<55, 46, 53>>
         /\ tbl.s = Str(<<104, 0, 105>>) => e.str = <<104>>
         /\ tbl.s = Str(<<255>>) => e.str = <<>>
         /\ tbl.s = Str(<<195, 169>>) => e.str = <<233>>
         /\ tbl.i = Num(1) => e.int = 1
         /\ tbl.i = Str(<<49, 48>>) => e.int = 10
         /\ tbl.i = Half(3) => e.int = 0
         /\ tbl.i = BigNum(1, 7) => e.int = 7
         /\ tbl.l = Num(1000) => e.extraLong = 1000
         /\ tbl.l = Num(42) => e.extraLong = 42
         /\ tbl.l = Str(<<45, 51>>) => e.extraLong = -3
         /\ tbl.l = Half(3) => e.extraLong = 0
         /\ tbl.l = BigNum(1, 7) => e.extraLong = 7
         /\ tbl \in {T_empty, T_other, T_bools, T_words, T_slight} =>
              e = DefaultEvent(last.id0)
         /\ tbl = T_done_other =>
              e = [DefaultEvent(last.id0) EXCEPT
                     !.str = <<100, 111, 110, 101>>, !.int = 1,
                     !.extraLong = 1000]
    ELSE last.out.setters = {} /\ e = DefaultEvent(last.id0)

\* {s="hello", l=42} queued behind the event of {i="10", l="-3"}
C10_Witness ==
  /\ IsPosted(last)
  /\ last.args = <<Light(43981), T_hello>>
  /\ Len(pending[43981]) = 2
  /\ pending[43981][1].int = 10
  /\ pending[43981][2].extraLong = 42
  /\ pending[43981][2].int = 0

\* a postEvent call, Initialized, with a live target and a table
PostsTable(c) ==
  /\ c.op = "postEvent"
  /\ c.id0 # wxID_ANY
  /\ Len(c.args) = 2
  /\ c.args[1].t = "lightuserdata"
  /\ c.args[1].p # NULL
  /\ c.args[2].t = "table"

\* C11 as stated: a value under s that is no string, or a value under i
\* or l that is not numeric, is skipped: the field keeps its default, no
\* error is raised and the event is queued.
C11_Original ==
  PostsTable(last) =>
    LET tbl == last.args[2] IN
    /\ IsPosted(last)
    /\ tbl.s.t # "string" =>
         "s" \notin last.out.setters /\ Posted(last).str = <<>>
    /\ ~SetsNumber(tbl.i) =>
         "i" \notin last.out.setters /\ Posted(last).int = 0
    /\ ~SetsNumber(tbl.l) =>
         "l" \notin last.out.setters /\ Posted(last).extraLong = 0

\* C11 amended: a value under s that is neither a string nor a number, or
\* a value under i or l that is not numeric, is skipped: the field keeps
\* its default, no error is raised, and the event is queued with the other
\* fields set as usual; a number under s is not skipped but sets the
\* string field to its decimal text.
C11_Permissive ==
  PostsTable(last) =>
    LET tbl == last.args[2]
        e == Posted(last)
    IN
    /\ IsPosted(last)
    /\ pending = [last.pending0 EXCEPT ![last.args[1].p] = Append(@, e)]
    /\ tbl.s.t \notin {"string", "number"} =>
         "s" \notin last.out.setters /\ e.str = <<>>
    /\ tbl.s.t = "number" => "s" \in last.out.setters /\ e.str # <<>>
    /\ ~SetsNumber(tbl.i) => "i" \notin last.out.setters /\ e.int = 0
    /\ ~SetsNumber(tbl.l) => "l" \notin last.out.setters /\ e.extraLong = 0
    /\ tbl = T_sbool =>
         e = [DefaultEvent(last.id0) EXCEPT !.int = 1, !.extraLong = 1000]
    /\ tbl = T_iword =>
         e = [DefaultEvent(last.id0) EXCEPT
                !.str = <<100, 111, 110, 101>>, !.extraLong = 1000]
    /\ tbl = T_ltable =>
         e = [DefaultEvent(last.id0) EXCEPT
                !.str = <<100, 111, 110, 101>>, !.int = 1]

\* {s="done", i="x", l=1000} queued behind the event of {s=true, i=1,
\* l=1000}
C11_Witness ==
  /\ IsPosted(last)
  /\ last.args = <<Light(43981), T_iword>>
  /\ Len(pending[43981]) = 2
  /\ pending[43981][1].str = <<>>
  /\ pending[43981][1].int = 1
  /\ pending[43981][2].int = 0
  /\ pending[43981][2].extraLong = 1000

\* C12 as stated: postEvent with 0 or with 3 or more arguments fails with
\* the argument-count error; with a first argument that is no plain
\* address it fails with the argument-1 type error; with a second argument
\* present that is no table it fails with the argument-2 type error; the
\* three errors are distinct.
C12_Original ==
  last.op = "postEvent" =>
    /\ Len(last.args) \notin {1, 2} => last.out = Error(ERR_ARGC)
    /\ Len(last.args) \in {1, 2} /\ last.args[1].t # "lightuserdata" =>
         last.out = Error(ERR_ARG1)
    /\ Len(last.args) = 2 /\ last.args[1].t = "lightuserdata"
         /\ last.args[2].t # "table" =>
         last.out = Error(ERR_ARG2)
    /\ Cardinality({ERR_ARGC, ERR_ARG1, ERR_ARG2}) = 3

\* C12 amended: postEvent with 0 or with 3 or more arguments fails with
\* the argument-count error in either state; Initialized, with one or two
\* arguments, a first argument that is no plain address (wrapper object,
\* number, string, nil) fails with the argument-1 type error, and a plain
\* address followed by a second argument that is no table (nil included)
\* fails with the argument-2 type error; the three errors and the
\* not-initialized error are pairwise distinct.
C12_Validation ==
  last.op = "postEvent" =>
    /\ Len(last.args) \notin {1, 2} => last.out = Error(ERR_ARGC)
    /\ last.id0 # wxID_ANY /\ Len(last.args) \in {1, 2}
         /\ last.args[1].t # "lightuserdata" =>
         last.out = Error(ERR_ARG1)
    /\ last.id0 # wxID_ANY /\ Len(last.args) = 2
         /\ last.args[1].t = "lightuserdata" /\ last.args[2].t # "table" =>
         last.out = Error(ERR_ARG2)
    /\ Cardinality({ERR_ARGC, ERR_UNINIT_POST, ERR_ARG1, ERR_ARG2}) = 4

\* Initialized, postEvent(0xABCD, nil) raised the argument-2 type error
C12_Witness ==
  /\ last.op = "postEvent"
  /\ last.id0 # wxID_ANY
  /\ last.args = <<Light(43981), Nil>>
  /\ last.out = Error(ERR_ARG2)

\* C13: no bridge call waits: a worker inside postEvent can always take
\* its remaining step, whatever the GUI thread does and however many
\* events are queued unprocessed, and with the worker scheduled and no
\* progress assumed of the GUI thread every postEvent call begun returns.
C13_FireAndForget ==
  /\ [](\A t \in Workers :
          pc[t] = "posting" => ENABLED <<worker_postEvent_finish(t)>>_vars)
  /\ \A t \in Workers : (pc[t] = "posting") ~> (pc[t] = "idle")

\* a worker's postEvent returned with its event queued behind another
\* unprocessed one, while the GUI thread is still inside init
C13_Witness ==
  /\ IsPosted(last)
  /\ pc["gui"] = "stored"
  /\ Posting = {}
  /\ TotalPending(pending) = MaxPending
  /\ TotalPending(last.pending0) = MaxPending - 1

\* the preconditions of postEvent a call violates, as the error each
\* raises
Violations(c) ==
  {m \in {ERR_ARGC, ERR_UNINIT_POST, ERR_ARG1, ERR_ARG2} :
     \/ m = ERR_ARGC /\ Len(c.args) \notin {1, 2}
     \/ m = ERR_UNINIT_POST /\ c.id0 = wxID_ANY
     \/ m = ERR_ARG1 /\ (Len(c.args) = 0 \/ c.args[1].t # "lightuserdata")
     \/ m = ERR_ARG2 /\ Len(c.args) >= 2 /\ c.args[2].t # "table"}

\* the first violation in the order count, not initialized, argument 1,
\* argument 2
FirstViolation(c) ==
  IF ERR_ARGC \in Violations(c) THEN ERR_ARGC
  ELSE IF ERR_UNINIT_POST \in Violations(c) THEN ERR_UNINIT_POST
  ELSE IF ERR_ARG1 \in Violations(c) THEN ERR_ARG1
  ELSE ERR_ARG2

\* C14: a postEvent call that violates one or more preconditions raises
\* exactly one error, that of the first violated in the order argument
\* count, not initialized, argument-1 type, argument-2 type, and a call
\* that violates none raises no error; so an uninitialized call with 0 or
\* 3 or more arguments raises the argument-count error and an
\* uninitialized call with a wrongly typed argument raises the
\* not-initialized error.
C14_Precedence ==
  last.op = "postEvent" =>
    /\ Violations(last) # {} => last.out = Error(FirstViolation(last))
    /\ Violations(last) = {} => last.out.status = "return"
    /\ last.id0 = wxID_ANY /\ Len(last.args) \notin {1, 2} =>
         last.out.msg = ERR_ARGC
    /\ last.id0 = wxID_ANY /\ Len(last.args) \in {1, 2} =>
         last.out.msg = ERR_UNINIT_POST

\* before init, postEvent(wrapper, 1, nil) violates all four preconditions
\* and raised the argument-count error
C14_Witness ==
  /\ last.op = "postEvent"
  /\ last.id0 = wxID_ANY
  /\ last.args = <<UData(43981), Num(1), Nil>>
  /\ Cardinality(Violations(last)) = 4
  /\ last.out = Error(ERR_ARGC)

\* C15: a postEvent call that raises an error (argument count, not
\* initialized, argument-1 type, argument-2 type) posts nothing: every
\* queue is as it was before the call.
C15_FailedPostQueuesNothing ==
  last.op = "postEvent" /\ last.out.status = "error" =>
    /\ last.out.msg \in {ERR_ARGC, ERR_UNINIT_POST, ERR_ARG1, ERR_ARG2}
    /\ last.out.posts = <<>>
    /\ \A o \in Objects : pending[o] = last.pending0[o]

\* postEvent(0xABCD, 1) raised the argument-2 type error with an event
\* already queued for 0xABCD
C15_Witness ==
  /\ last.op = "postEvent"
  /\ last.args = <<Light(43981), Num(1)>>
  /\ last.out = Error(ERR_ARG2)
  /\ Len(pending[43981]) = 1

\* C16: getPointer and postEvent leave the stored identifier as it was,
\* whether they return a result, return nothing or raise an error, so
\* that only init writes it; init and getPointer post no event and leave
\* every queue as it was.
C16_Frame ==
  /\ last.op \in {"getPointer", "postEvent"} =>
       s_defaultEventID = last.id0
  /\ last.op \in {"init", "getPointer"} =>
       last.out.posts = <<>> /\ pending = last.pending0
  /\ last.op = "init" /\ s_defaultEventID # last.id0 =>
       last.out.status = "return"

\* Initialized with an event queued, getPointer(nil) returned nothing
C16_Witness ==
  /\ last.op = "getPointer"
  /\ last.args = <<Nil>>
  /\ last.out = Return(<<>>, <<>>, {})
  /\ s_defaultEventID # wxID_ANY
  /\ TotalPending(pending) > 0

=============================================================================
